---- MODULE Spec2Model ----
(***************************************************************************)
(* State-machine model of IPython/nbconvert/filters/markdown.py: the       *)
(* Markdown filters, the memoized Node.js lookup of markdown2html and the  *)
(* availability probe _verify_node.                                        *)
(*                                                                         *)
(* Strings the code inspects character by character (version output,       *)
(* renderer output) are sequences of one-character strings.  The values    *)
(* None and False of the module global _node are the strings "None" and    *)
(* "False".                                                                *)
(***************************************************************************)
EXTENDS Naturals, Sequences, FiniteSets, TLC

\* ---------------------------------------------------------------- bounds
NThreads == 2
MaxCalls == 3
MaxNL == 2

Threads == 1..NThreads

\* ------------------------------------------------------------- constants
None == "None"
False == "False"
Cmds == {"nodejs", "node"}
NL == "\n"

\* the minimum version literal of line 164, '0.9.12'
MinVersion == <<"0", ".", "9", ".", "1", "2">>

\* ------------------------------------------------------ the environment
\* What `cmd --version` does when cmd can be spawned: the version the binary
\* has, how many 'v' it prints in front of it, and its exit status.
NodeBuilds ==
    { [vs |-> 1, ver |-> <<0, 9, 12>>, rc |-> 0],
      [vs |-> 1, ver |-> <<0, 9, 11>>, rc |-> 0],
      [vs |-> 1, ver |-> <<0, 10, 0>>, rc |-> 0],
      [vs |-> 0, ver |-> <<0, 9, 13>>, rc |-> 0],
      [vs |-> 1, ver |-> <<0, 9, 12>>, rc |-> 1] }

DigitChar == <<"0", "1", "2", "3", "4", "5", "6", "7", "8", "9">>

DigitVal(c) == CHOOSE d \in 0..9 : DigitChar[d + 1] = c

\* decimal digits of n < 100
NumChars(n) ==
    IF n < 10 THEN <<DigitChar[n + 1]>>
    ELSE <<DigitChar[(n \div 10) + 1], DigitChar[(n % 10) + 1]>>

RECURSIVE Repeat(_, _)
Repeat(c, k) == IF k = 0 THEN <<>> ELSE <<c>> \o Repeat(c, k - 1)

\* stdout of `cmd --version` for a build
VersionOutput(b) ==
    Repeat("v", b.vs) \o NumChars(b.ver[1]) \o <<".">> \o NumChars(b.ver[2])
        \o <<".">> \o NumChars(b.ver[3])

\* what the Node renderer may write to its stdout
Outputs ==
    { body \o Repeat(NL, k) :
        body \in {<<>>, <<"X">>, <<NL, "X">>}, k \in 0..MaxNL }

\* ------------------------------------------------------------ the state
VARIABLES
    _node,      \* the module global _node (line 40)
    mistune,    \* whether `import mistune` succeeded (lines 24-27)
    installed,  \* installed[c]: the OS can spawn command c now
    build,      \* build[c]: what command c is when it can be spawned
    threaded,   \* whether the host runs conversions concurrently across threads
    pc,         \* pc[t]: where thread t is in markdown2html, or "idle"
    last,       \* the call that ended last: its function and its outcome
    calls,      \* calls started
    warnings,   \* calls of warnings.warn (line 83)
    lookups,    \* times the branch of line 76 was entered
    probes,     \* calls of _verify_node
    probeRes,   \* probeRes[c]: the last answer of _verify_node(c)
    htmlDone    \* markdown2html calls that have ended

vars == <<_node, mistune, installed, build, threaded, pc, last, calls, warnings,
          lookups, probes, probeRes, htmlDone>>

NoResult ==
    [op |-> "none", kind |-> "none", backend |-> "none", cmd |-> "none",
     args |-> <<>>,
     verified |-> FALSE, raw |-> <<>>, out |-> <<>>]

Unprobed == [probed |-> FALSE, avail |-> FALSE, spawned |-> FALSE]

\* ------------------------------------------------------ pure functions
\* str.lstrip(chars) with a one-character set: drops every leading c
RECURSIVE lstrip(_, _)
lstrip(s, c) ==
    IF s # <<>> /\ Head(s) = c THEN lstrip(Tail(s), c) ELSE s

RstripOne(s, c) ==
    IF s # <<>> /\ s[Len(s)] = c THEN SubSeq(s, 1, Len(s) - 1) ELSE s

\* str.rstrip(chars) with a one-character set: drops every trailing c
RECURSIVE rstrip(_, _)
rstrip(s, c) ==
    IF s # <<>> /\ s[Len(s)] = c THEN rstrip(SubSeq(s, 1, Len(s) - 1), c) ELSE s

\* the numeric components of a dotted version string
RECURSIVE ParseFrom(_, _, _)
ParseFrom(s, cur, acc) ==
    IF s = <<>> THEN Append(acc, cur)
    ELSE IF Head(s) = "." THEN ParseFrom(Tail(s), 0, Append(acc, cur))
    ELSE ParseFrom(Tail(s), cur * 10 + DigitVal(Head(s)), acc)

ParseVersion(s) == ParseFrom(s, 0, <<>>)

\* component-wise ordering of two parsed versions, a >= b
RECURSIVE ComponentsGE(_, _)
ComponentsGE(a, b) ==
    IF b = <<>> THEN TRUE
    ELSE IF a = <<>> THEN FALSE
    ELSE IF Head(a) > Head(b) THEN TRUE
    ELSE IF Head(a) < Head(b) THEN FALSE
    ELSE ComponentsGE(Tail(a), Tail(b))

\* IPython.utils.version.check_version(v, check): v >= check
check_version(v, check) == ComponentsGE(ParseVersion(v), ParseVersion(check))

verify_node_ignoring_status(cmd) ==
    IF ~installed[cmd] THEN FALSE
    ELSE check_version(lstrip(VersionOutput(build[cmd]), "v"), MinVersion)

\* _verify_node(cmd), lines 148-164, for a command name
verify_node(cmd) ==
    IF ~installed[cmd] THEN FALSE          \* OSError: command not found
    ELSE IF build[cmd].rc # 0 THEN FALSE   \* command error
    ELSE check_version(lstrip(VersionOutput(build[cmd]), "v"), MinVersion)

NeedsLookupWhenFalsy(n) == n = None \/ n = False

\* line 76: `if _node is None`
NeedsLookup(n) == n = None

\* line 86: `if _node`
Truthy(n) == n # None /\ n # False

MemoOnFailUnset == None

\* line 85: what the failed lookup leaves in _node
MemoOnFail == False

DispatchPandocFirst(n, m) ==
    IF Truthy(n) THEN "marked" ELSE IF m THEN "pandoc" ELSE "mistune"

\* lines 86-91: the backend markdown2html hands the source to
Dispatch(n, m) ==
    IF Truthy(n) THEN "marked" ELSE IF m THEN "mistune" ELSE "pandoc"

\* pandoc(source, fmt, to, extra_args): the call is handed to the
\* document-conversion tool; its outcome is the tool's
pandoc(fmt, to, extra) ==
    [NoResult EXCEPT !.kind = "delegated", !.backend = "pandoc",
                     !.args = <<fmt, to>> \o extra]

\* lines 55-71
markdown2latex_result == pandoc("markdown", "latex", <<>>)

\* lines 130-146
markdown2rst_result == pandoc("markdown", "rst", <<>>)

\* lines 110-112
markdown2html_pandoc_result == pandoc("markdown", "html", <<"--mathjax">>)

\* lines 107-108: mistune.Markdown(...) with mistune = None is an
\* AttributeError
markdown2html_mistune_result ==
    IF mistune
    THEN [NoResult EXCEPT !.kind = "ok", !.backend = "mistune"]
    ELSE [NoResult EXCEPT !.kind = "AttributeError", !.backend = "mistune"]

\* lines 114-128 with the global _node = n and the renderer writing raw:
\* Popen([n, marked]) is a TypeError when n is not a string, an OSError
\* (turned into NodeJSMissing) when n cannot be spawned
markdown2html_marked_result(n, raw) ==
    IF n \notin Cmds
    THEN [NoResult EXCEPT !.kind = "TypeError", !.backend = "marked", !.cmd = n]
    ELSE IF ~installed[n]
    THEN [NoResult EXCEPT !.kind = "NodeJSMissing", !.backend = "marked",
                          !.cmd = n,
                          !.verified = probeRes[n].probed /\ probeRes[n].avail]
    ELSE [NoResult EXCEPT !.kind = "ok", !.backend = "marked", !.cmd = n,
                          !.verified = probeRes[n].probed /\ probeRes[n].avail,
                          !.raw = raw, !.out = rstrip(raw, NL)]

\* ----------------------------------------------------------------- Init
Init ==
    /\ _node = None
    /\ mistune \in BOOLEAN
    /\ installed \in [Cmds -> BOOLEAN]
    /\ build \in [Cmds -> NodeBuilds]
    /\ threaded \in BOOLEAN
    /\ pc = [t \in Threads |-> "idle"]
    /\ last = NoResult
    /\ calls = 0
    /\ warnings = 0
    /\ lookups = 0
    /\ probes = 0
    /\ probeRes = [c \in Cmds |-> Unprobed]
    /\ htmlDone = 0

\* -------------------------------------------------------------- actions
\* thread t may take a step: always when the host is threaded, else only
\* while no other thread is inside a call
Sched(t) == threaded \/ \A u \in Threads \ {t} : pc[u] = "idle"

\* thread t's markdown2html call ends with res
Finish(t, res) ==
    /\ pc' = [pc EXCEPT ![t] = "idle"]
    /\ last' = [res EXCEPT !.op = "markdown2html"]
    /\ htmlDone' = htmlDone + 1

\* a function that runs in one step: thread t calls it and it ends with res
Direct(t, name, res) ==
    /\ Sched(t)
    /\ calls < MaxCalls
    /\ calls' = calls + 1
    /\ last' = [res EXCEPT !.op = name]
    /\ UNCHANGED <<_node, mistune, installed, build, threaded, pc, warnings, lookups,
                   probes, probeRes, htmlDone>>

markdown2latex(t) ==
    /\ pc[t] = "idle"
    /\ Direct(t, "markdown2latex", markdown2latex_result)

markdown2rst(t) ==
    /\ pc[t] = "idle"
    /\ Direct(t, "markdown2rst", markdown2rst_result)

markdown2html_pandoc(t) ==
    /\ pc[t] = "idle"
    /\ Direct(t, "markdown2html_pandoc", markdown2html_pandoc_result)

markdown2html_mistune(t) ==
    /\ pc[t] = "idle"
    /\ Direct(t, "markdown2html_mistune", markdown2html_mistune_result)

\* a direct call of markdown2html_marked: it reads the global _node as it is
markdown2html_marked(t) ==
    /\ pc[t] = "idle"
    /\ \E raw \in Outputs :
         Direct(t, "markdown2html_marked", markdown2html_marked_result(_node, raw))

\* markdown2html is entered (line 73)
markdown2html(t) ==
    /\ pc[t] = "idle"
    /\ Sched(t)
    /\ calls < MaxCalls
    /\ calls' = calls + 1
    /\ pc' = [pc EXCEPT ![t] = "l76"]
    /\ UNCHANGED <<_node, mistune, installed, build, threaded, last, warnings, lookups,
                   probes, probeRes, htmlDone>>

\* line 76
L76(t) ==
    /\ pc[t] = "l76"
    /\ Sched(t)
    /\ IF NeedsLookup(_node)
       THEN /\ pc' = [pc EXCEPT ![t] = "l79"]
            /\ lookups' = lookups + 1
       ELSE /\ pc' = [pc EXCEPT ![t] = "l86"]
            /\ UNCHANGED lookups
    /\ UNCHANGED <<_node, mistune, installed, build, threaded, last, calls,
                   warnings, probes, probeRes, htmlDone>>

\* line 79
L79(t) ==
    /\ pc[t] = "l79"
    /\ Sched(t)
    /\ _node' = "nodejs"
    /\ pc' = [pc EXCEPT ![t] = "l80"]
    /\ UNCHANGED <<mistune, installed, build, threaded, last, calls, warnings,
                   lookups, probes, probeRes, htmlDone>>

\* `if not _verify_node(_node)` of lines 80 and 82: the global is read again;
\* a value that is not a string makes Popen raise TypeError, which ends the
\* call
Probe(t, onFail) ==
    /\ Sched(t)
    /\ IF _node \notin Cmds
       THEN /\ Finish(t, [NoResult EXCEPT !.kind = "TypeError"])
            /\ UNCHANGED <<probes, probeRes>>
       ELSE /\ probes' = probes + 1
            /\ probeRes' = [probeRes EXCEPT ![_node] =
                              [probed |-> TRUE, avail |-> verify_node(_node),
                               spawned |-> installed[_node]]]
            /\ pc' = [pc EXCEPT ![t] =
                        IF verify_node(_node) THEN "l86" ELSE onFail]
            /\ UNCHANGED <<last, htmlDone>>
    /\ UNCHANGED <<_node, mistune, installed, build, threaded, calls, warnings,
                   lookups>>

\* line 80
L80(t) ==
    /\ pc[t] = "l80"
    /\ Probe(t, "l81")

\* line 81
L81(t) ==
    /\ pc[t] = "l81"
    /\ Sched(t)
    /\ _node' = "node"
    /\ pc' = [pc EXCEPT ![t] = "l82"]
    /\ UNCHANGED <<mistune, installed, build, threaded, last, calls, warnings,
                   lookups, probes, probeRes, htmlDone>>

\* line 82
L82(t) ==
    /\ pc[t] = "l82"
    /\ Probe(t, "l83")

\* lines 83-85
L83(t) ==
    /\ pc[t] = "l83"
    /\ Sched(t)
    /\ warnings' = warnings + 1
    /\ _node' = MemoOnFail
    /\ pc' = [pc EXCEPT ![t] = "l86"]
    /\ UNCHANGED <<mistune, installed, build, threaded, last, calls, lookups,
                   probes, probeRes, htmlDone>>

\* lines 86-91
L86(t) ==
    /\ pc[t] = "l86"
    /\ Sched(t)
    /\ LET b == Dispatch(_node, mistune) IN
         IF b = "marked"
         THEN /\ pc' = [pc EXCEPT ![t] = "l116"]
              /\ UNCHANGED <<last, htmlDone>>
         ELSE IF b = "mistune"
         THEN Finish(t, markdown2html_mistune_result)
         ELSE Finish(t, markdown2html_pandoc_result)
    /\ UNCHANGED <<_node, mistune, installed, build, threaded, calls, warnings,
                   lookups, probes, probeRes>>

\* lines 116-128, reached from line 87
L116(t) ==
    /\ pc[t] = "l116"
    /\ Sched(t)
    /\ \E raw \in Outputs : Finish(t, markdown2html_marked_result(_node, raw))
    /\ UNCHANGED <<_node, mistune, installed, build, threaded, calls, warnings,
                   lookups, probes, probeRes>>

\* a command is installed or removed while the process runs
EnvChange ==
    /\ \E c \in Cmds : installed' = [installed EXCEPT ![c] = ~installed[c]]
    /\ UNCHANGED <<_node, mistune, build, threaded, pc, last, calls, warnings,
                   lookups, probes, probeRes, htmlDone>>

Next ==
    \/ \E t \in Threads :
          \/ markdown2latex(t)
          \/ markdown2rst(t)
          \/ markdown2html_pandoc(t)
          \/ markdown2html_mistune(t)
          \/ markdown2html_marked(t)
          \/ markdown2html(t)
          \/ L76(t)
          \/ L79(t)
          \/ L80(t)
          \/ L81(t)
          \/ L82(t)
          \/ L83(t)
          \/ L86(t)
          \/ L116(t)
    \/ EnvChange

\* section 5 of the specification: single-threaded, one call at a time
InitSeq == Init /\ ~threaded

Spec == InitSeq /\ [][Next]_vars

\* The host runs conversions concurrently across threads.  The probe's
\* answer is all that matters to the interleavings: one build that passes
\* it and one that fails it.
ConcBuilds == {b \in NodeBuilds : b.vs = 1 /\ b.rc = 0 /\ b.ver[2] = 9}

InitConc == Init /\ threaded /\ build \in [Cmds -> ConcBuilds]

SpecConc == InitConc /\ [][Next]_vars

\* ------------------------------------------------------------ properties
Idle == \A t \in Threads : pc[t] = "idle"

BothProbesFailed == \A c \in Cmds : probeRes[c].probed /\ ~probeRes[c].avail

\* the backend the precedence of the specification picks, from what the
\* probes answered and whether the in-process library is there
ExpectedChoice ==
    IF probeRes["nodejs"].probed /\ probeRes["nodejs"].avail
    THEN <<"marked", "nodejs", <<>>>>
    ELSE IF probeRes["node"].probed /\ probeRes["node"].avail
    THEN <<"marked", "node", <<>>>>
    ELSE IF mistune THEN <<"mistune", "none", <<>>>>
    ELSE <<"pandoc", "none", <<"markdown", "html", "--mathjax">>>>

\* C1: every markdown2html call hands the source to the backend the fixed
\* precedence picks: marked under 'nodejs' if its probe passed, else marked
\* under 'node' if its probe passed, else mistune if the library is present,
\* else pandoc to html with --mathjax.
C1_BackendPrecedence ==
    last.op = "markdown2html"
        => <<last.backend, last.cmd, last.args>> = ExpectedChoice

C1_Witness ==
    /\ last.op = "markdown2html"
    /\ BothProbesFailed
    /\ ~mistune
    /\ last.backend = "pandoc"
    /\ last.args = <<"markdown", "html", "--mathjax">>

\* C2: when both probes failed, the fallback warning has been emitted exactly
\* once by the time the first markdown2html call ends, and however many
\* calls follow it is never emitted again.
C2_WarnsOnce ==
    /\ warnings <= 1
    /\ (htmlDone >= 1 /\ BothProbesFailed) => warnings = 1

C2_Witness == htmlDone >= 2 /\ Idle /\ BothProbesFailed /\ warnings = 1

C3_MemoState ==
    /\ (htmlDone = 0 /\ Idle) => _node = None
    /\ htmlDone >= 1 => _node \in Cmds \cup {False}

\* C3: _node is None until the first markdown2html call; once that call has
\* ended it is 'nodejs', 'node' or False, and from then on no step of any
\* conversion function changes it or calls _verify_node.
C3_MemoStable ==
    /\ []C3_MemoState
    /\ [][htmlDone >= 1 => (_node' = _node /\ probes' = probes)]_vars

C3_Witness ==
    /\ htmlDone >= 2
    /\ Idle
    /\ _node = "node"
    /\ last.op = "markdown2html_marked"
    /\ probes = 2

\* C4: across all threads the lookup of lines 77-85 is entered at most once.
C4_LookupAtMostOnce == lookups <= 1

\* the number of newlines s ends in
TrailingNL(s) ==
    CHOOSE k \in 0..Len(s) :
        /\ \A i \in (Len(s) - k + 1)..Len(s) : s[i] = NL
        /\ k = Len(s) \/ s[Len(s) - k] # NL

MarkedOk == last.backend = "marked" /\ last.kind = "ok"

\* C5, as the claim states it: the result is the renderer's output with
\* exactly one trailing newline removed if there is one.
C5_StripsOneNewline ==
    MarkedOk =>
        last.out = SubSeq(last.raw, 1,
                          Len(last.raw) - (IF TrailingNL(last.raw) >= 1 THEN 1 ELSE 0))

\* C5, amended: the result is the renderer's output with every trailing
\* newline removed.
C5_StripsAllNewlines ==
    MarkedOk =>
        /\ last.out = SubSeq(last.raw, 1, Len(last.raw) - TrailingNL(last.raw))
        /\ TrailingNL(last.out) = 0

C5_Witness ==
    /\ MarkedOk
    /\ last.op = "markdown2html_marked"
    /\ last.raw = <<"X", NL, NL>>
    /\ last.out = <<"X">>

\* C6: no markdown2html call ends in NodeJSMissing.
C6_ToHtmlAbsorbsNodeMissing ==
    last.op = "markdown2html" => last.kind # "NodeJSMissing"

\* C7: a direct markdown2html_marked call that fails, fails with
\* NodeJSMissing, whatever _node holds.
C7_DirectMarkedFailsWithNodeJSMissing ==
    (last.op = "markdown2html_marked" /\ last.kind # "ok")
        => last.kind = "NodeJSMissing"

\* version triple v is at least 0.9.12
AtLeastMinimum(v) ==
    \/ v[1] > 0
    \/ v[1] = 0 /\ v[2] > 9
    \/ v[1] = 0 /\ v[2] = 9 /\ v[3] >= 12

\* C8: _verify_node answers available exactly when the version query was
\* spawned, exited with status zero and reported a version of at least
\* 0.9.12.
C8_ProbeIffUsable ==
    \A c \in Cmds :
        probeRes[c].probed =>
            (probeRes[c].avail <=>
                /\ probeRes[c].spawned
                /\ build[c].rc = 0
                /\ AtLeastMinimum(build[c].ver))

C8_Witness ==
    /\ probeRes["nodejs"].probed /\ probeRes["nodejs"].spawned
    /\ build["nodejs"].rc = 0 /\ build["nodejs"].ver = <<0, 9, 11>>
    /\ ~probeRes["nodejs"].avail
    /\ probeRes["node"].probed /\ probeRes["node"].spawned
    /\ build["node"].rc = 0 /\ build["node"].ver = <<0, 9, 12>>
    /\ probeRes["node"].avail

\* C9: markdown2html_mistune without the mistune library fails with the
\* module's backend-unavailable error.
C9_MistuneAbsentIsBackendUnavailable ==
    (last.op = "markdown2html_mistune" /\ ~mistune)
        => last.kind = "NodeJSMissing"

\* C10: whenever markdown2html spawns the Node renderer, the command it
\* spawns is one _verify_node has already answered available for.
C10_SpawnsOnlyVerified ==
    (last.op = "markdown2html" /\ last.backend = "marked" /\ last.cmd \in Cmds)
        => last.verified

====
